---- MODULE Spec2Model ----
(***************************************************************************)
(* A model of scripts/flexible_freeze.py: the coordinator process (module  *)
(* level code and main) and the worker processes it forks.                 *)
(*                                                                         *)
(* Strings that the program parses are sequences of one-character strings; *)
(* database and table names are TLA+ strings.  Time is in seconds.         *)
(***************************************************************************)
EXTENDS Integers, Sequences, FiniteSets, TLC

(* ------------------------------ bounds -------------------------------- *)

\* the largest value of --jobs that is tried
MaxJobs == 2
\* how many times the wall clock advances in one run
MaxTicks == 1
\* how many failures (refused connections, failed VACUUMs) one run injects
MaxFaults == 2

\* partitioning alone: the largest worker count and the longest candidate
\* list of one database
MaxSplitJobs == 4
MaxRank == 3

(* ------------------------- program constants -------------------------- *)

SecondsPerMinute == 60
TimeoutSlack == 30
FreezeLimit == 1000

\* the wall clock advances in steps of this many seconds
TickSeconds == SecondsPerMinute

(* ------------------------------ helpers ------------------------------- *)

Range(s) == { s[k] : k \in 1..Len(s) }

None == "None"

\* stands for a list-valued name that is None or not yet bound
NoList == << >>

Min(a, b) == IF a < b THEN a ELSE b

\* str.split("."): the parts between the dots, empty parts included
RECURSIVE SplitDot(_, _, _)
SplitDot(s, cur, acc) ==
    IF s = << >> THEN Append(acc, cur)
    ELSE IF Head(s) = "." THEN SplitDot(Tail(s), "", Append(acc, cur))
    ELSE SplitDot(Tail(s), cur \o Head(s), acc)

split(elem) == SplitDot(elem, "", << >>)

(* --------------------------- the environment -------------------------- *)

DBNames == {"A", "B"}

\* what each database would answer to the two table queries, in rank order,
\* before the exclude clause is applied
CatalogSmall ==
    [A |-> [freeze |-> <<"t1", "t2">>, decay |-> <<"t2">>],
     B |-> [freeze |-> <<"t1">>,       decay |-> <<"t1">>]]

\* values of --exclude-table-in-database
ArgAt1  == <<"A", ".", "t", "1">>
ArgAt2  == <<"A", ".", "t", "2">>
ArgBt1  == <<"B", ".", "t", "1">>
ArgNoDot   == <<"A", "t", "1">>
ArgTwoDots == <<"A", ".", "s", ".", "t", "1">>
ArgNoDb    == <<".", "t", "1">>

ExcludeArgChoices ==
    { << >>, <<ArgAt1>>, <<ArgBt1>>, <<ArgNoDot>>, <<ArgTwoDots>>, <<ArgNoDb>>,
      <<ArgAt1, ArgAt2>>, <<ArgAt1, ArgNoDot>> }

(* --------------------------- configurations --------------------------- *)

\* the parsed command line (argparse, lines 31-76); dblist is the list
\* args.dblist.split(',') yields, or NoList when args.dblist is None
ArgsOf(jobs, run_min, pause, dry, enforce, vac, dbl, excl, exdb) ==
    [jobs |-> jobs, run_min |-> run_min, pause_time |-> pause,
     dry_run |-> dry, enforcetime |-> enforce, vacuum |-> vac,
     dblist |-> dbl, tables_to_exclude |-> excl,
     exclude_table_in_database |-> exdb]

Orders == { <<"A", "B">>, <<"B", "A">> }

\* runs that vary what is selected: exclusions, policy, resource list
SelectionConfigs ==
    { [args |-> ArgsOf(1, 1, 0, TRUE, FALSE, vac, dbl, excl, exdb),
       catalog |-> CatalogSmall, datnames |-> <<"B", "A">>, order |-> o] :
         vac \in BOOLEAN, dbl \in {NoList, <<"A", "B">>},
         excl \in {<< >>, <<"t1">>, <<"t3", "t2">>},
         exdb \in ExcludeArgChoices, o \in Orders }

\* --dry-run, --enforce-time and --pause as given together
Modes ==
    (BOOLEAN \X BOOLEAN \X {0}) \cup {<<FALSE, FALSE, TickSeconds>>}

\* runs that vary how the workers run: jobs, budget, pause, modes
WorkerConfigs ==
    { [args |-> ArgsOf(j, m, mode[3], mode[1], mode[2], FALSE,
                       <<"A", "B">>, << >>, << >>),
       catalog |-> CatalogSmall, datnames |-> <<"A", "B">>,
       order |-> <<"A", "B">>] :
         j \in (0 - 1)..MaxJobs, m \in {0, 1}, mode \in Modes }

Configs == SelectionConfigs \cup WorkerConfigs

(* ------------------------------ the state ----------------------------- *)

VARIABLES
    args,           \* the parsed command line
    catalog,        \* the tables each database would report, by policy
    datnames,       \* the databases pg_database lists, in its order
    dictOrder,      \* the order in which a dict of databases iterates
    now,            \* time.time()
    ticks,          \* how often the clock has advanced
    faults,         \* how many failures were injected
    interrupted,    \* the processes SIGINT was delivered to (0: coordinator)
    ppc,            \* where the coordinator is
    exitcode,       \* the coordinator's exit status, once ppc = "exited"
    pexc,           \* the exception that ended the coordinator, if any
    connects,       \* connection attempts of the coordinator, in order
    conn,           \* the module-level name conn
    database_table_excludemap,
    dblist,
    dbi,            \* get_candidates: how many databases were visited
    database_table_vacuummap,
    lists_of_pairs, \* split_into_lists' result
    started,        \* how many processes were started
    joined,         \* how many processes were joined
    wpc,            \* where each worker is
    idx,            \* each worker's position in its queue (1-based)
    halt_time,
    checkedAt,      \* the clock value each worker's last deadline check read
    timeout_secs,   \* bound only under --enforce-time, once computed
    tables_processed,
    attempted,      \* positions whose VACUUM was issued, per worker, in order
    failed,         \* positions whose VACUUM raised, per worker
    wake,           \* when each worker's time.sleep returns
    wexc,           \* the exception that ended each worker, if any
    skipped,        \* the databases get_table_list_for_db could not connect to
    wconnects,      \* each worker's dbconnect calls: <<position, outcome>>
    wopen,          \* how many connections each worker's names conn, cur
                    \* and excur keep open
    stmt_timeout,   \* statement_timeout each worker's statement in flight runs
                    \* under (0: none)
    vac_start,      \* when each worker's VACUUM in flight was sent
    output_lock,    \* the processes holding output_lock
    opc             \* where each process is in the printing functions

envVars == <<args, catalog, datnames, dictOrder>>
clockVars == <<now, ticks>>
parentVars == <<ppc, exitcode, pexc, connects, conn, database_table_excludemap,
                dblist, dbi, skipped, database_table_vacuummap, lists_of_pairs,
                started, joined>>
connVars == <<wconnects, wopen, stmt_timeout, vac_start>>
workerVars == <<wpc, idx, halt_time, checkedAt, timeout_secs,
                tables_processed, attempted, failed, wake, wexc, connVars>>
lockVars == <<output_lock, opc>>
vars == <<envVars, clockVars, faults, interrupted, parentVars, workerVars,
          lockVars>>

\* process ids: the code numbers the workers from 0, the model from 1
Workers == 1..MaxJobs

\* the coordinator (0) and the workers
Procs == 0..MaxJobs

Init ==
    /\ \E c \in Configs :
          /\ args = c.args
          /\ catalog = c.catalog
          /\ datnames = c.datnames
          /\ dictOrder = c.order
    /\ now = 0
    /\ ticks = 0
    /\ faults = 0
    /\ interrupted = {}
    /\ ppc = "excludemap"
    /\ exitcode = 0
    /\ pexc = None
    /\ connects = << >>
    /\ conn = "undefined"
    /\ database_table_excludemap = << >>
    /\ dblist = NoList
    /\ dbi = 0
    /\ database_table_vacuummap = << >>
    /\ lists_of_pairs = << >>
    /\ started = 0
    /\ joined = 0
    /\ wpc = [w \in Workers |-> "unborn"]
    /\ idx = [w \in Workers |-> 1]
    /\ halt_time = [w \in Workers |-> 0]
    /\ checkedAt = [w \in Workers |-> 0]
    /\ timeout_secs = [w \in Workers |-> 0]
    /\ tables_processed = [w \in Workers |-> << >>]
    /\ attempted = [w \in Workers |-> << >>]
    /\ failed = [w \in Workers |-> {}]
    /\ wake = [w \in Workers |-> 0]
    /\ wexc = [w \in Workers |-> None]
    /\ skipped = {}
    /\ wconnects = [w \in Workers |-> << >>]
    /\ wopen = [w \in Workers |-> 0]
    /\ stmt_timeout = [w \in Workers |-> 0]
    /\ vac_start = [w \in Workers |-> 0]
    /\ output_lock = {}
    /\ opc = [p \in Procs |-> "idle"]

(* ------------------- module level code: lines 156-220 ----------------- *)

\* an acceptance test that lets longer splits through
IsPairLoose(parts) == Len(parts) >= 2

\* line 160
IsPair(parts) == Len(parts) = 2

\* lines 158-169: the loop over args.exclude_table_in_database; ok is FALSE
\* when an element made the loop call exit(2)
RECURSIVE BuildExcludeMap(_, _)
BuildExcludeMap(elems, map) ==
    IF elems = << >> THEN [ok |-> TRUE, map |-> map]
    ELSE LET parts == split(Head(elems)) IN
         IF ~IsPair(parts) THEN [ok |-> FALSE, map |-> map]
         ELSE LET dat == parts[1]
                  tab == parts[2]
              IN  BuildExcludeMap(Tail(elems),
                     IF dat \in DOMAIN map
                     THEN [map EXCEPT ![dat] = Append(@, tab)]
                     ELSE map @@ (dat :> <<tab>>))

\* sys.exit(code), exit(code) or an uncaught exception in the coordinator:
\* the interpreter shuts down with that status
ParentExit(code) ==
    /\ ppc' = "exiting"
    /\ exitcode' = code

\* lines 156-170
ParseExcludes ==
    /\ ppc = "excludemap"
    /\ LET r == BuildExcludeMap(args.exclude_table_in_database, << >>) IN
       IF r.ok
       THEN /\ database_table_excludemap' = r.map
            /\ ppc' = "signal"
            /\ UNCHANGED exitcode
       ELSE /\ ParentExit(2)
            /\ UNCHANGED database_table_excludemap
    /\ UNCHANGED <<lockVars, envVars, interrupted, clockVars, faults, pexc, connects, conn, dblist, dbi, skipped,
                   database_table_vacuummap, lists_of_pairs, started, joined,
                   workerVars>>

\* lines 175-176: signal.signal(signal.SIGINT, signal_handler)
InstallHandler ==
    /\ ppc = "signal"
    /\ ppc' = "dblist"
    /\ UNCHANGED <<lockVars, envVars, interrupted, clockVars, faults, exitcode, pexc, connects, conn,
                   database_table_excludemap, dblist, dbi, skipped,
                   database_table_vacuummap, lists_of_pairs, started, joined,
                   workerVars>>

HandlerInstalled == ppc \notin {"excludemap", "signal"}

\* lines 193-216: the list of databases, given or read from pg_database
ListDatabases ==
    /\ ppc = "dblist"
    /\ IF args.dblist = NoList
       THEN /\ connects' = Append(connects, "postgres")
            /\ \/ \* line 199-201: the connection fails
                  /\ faults < MaxFaults
                  /\ faults' = faults + 1
                  /\ conn' = None
                  /\ ParentExit(1)
                  /\ UNCHANGED dblist
               \/ /\ conn' = "closed"
                  /\ UNCHANGED faults
                  /\ dblist' = datnames
                  /\ IF datnames = << >>
                     THEN ParentExit(1)
                     ELSE ppc' = "candidates" /\ UNCHANGED exitcode
       ELSE /\ dblist' = args.dblist
            /\ ppc' = "candidates"
            /\ UNCHANGED <<connects, conn, faults, exitcode>>
    /\ UNCHANGED <<lockVars, envVars, interrupted, clockVars, pexc, database_table_excludemap, dbi, skipped,
                   database_table_vacuummap, lists_of_pairs, started, joined,
                   workerVars>>

(* ---------------------- candidate selection: 225-317 ------------------ *)

\* an exclude clause that forgets the per-database names
ExcludedTablesGlobalOnly(db) == args.tables_to_exclude

\* lines 236-245: the names the exclude clause lists for database db
ExcludedTables(db) ==
    args.tables_to_exclude
      \o (IF db \in DOMAIN database_table_excludemap
          THEN database_table_excludemap[db] ELSE << >>)

NotExcluded(db, t) == t \notin Range(ExcludedTables(db))

\* lines 249-305: the query with its exclude clause, as the database answers
\* it: the policy's rows in rank order, without the excluded names
TableQuery(db) ==
    LET ranked == IF args.vacuum THEN catalog[db].decay ELSE catalog[db].freeze
        kept == SelectSeq(ranked, LAMBDA t : NotExcluded(db, t))
    IN  IF args.vacuum THEN kept
        ELSE SubSeq(kept, 1, Min(Len(kept), FreezeLimit))

\* a selection that gives up at the first database it cannot connect to
SelectDbAborts ==
    /\ ppc = "candidates"
    /\ dbi < Len(dblist)
    /\ LET db == dblist[dbi + 1] IN
         /\ connects' = Append(connects, db)
         /\ \/ /\ faults < MaxFaults
               /\ faults' = faults + 1
               /\ skipped' = skipped \cup {db}
               /\ ParentExit(1)
               /\ UNCHANGED database_table_vacuummap
            \/ /\ UNCHANGED <<faults, skipped, exitcode>>
               /\ ppc' = IF dbi + 1 = Len(dblist) THEN "partition" ELSE "candidates"
               /\ LET tables == TableQuery(db) IN
                    database_table_vacuummap' =
                       IF tables # << >>
                       THEN (db :> tables) @@ database_table_vacuummap
                       ELSE database_table_vacuummap
    /\ dbi' = dbi + 1
    /\ UNCHANGED <<lockVars, envVars, interrupted, clockVars, pexc, conn,
                   database_table_excludemap, dblist, lists_of_pairs, started,
                   joined, workerVars>>

\* lines 309-313: one round of get_candidates' loop, get_table_list_for_db
\* included
SelectDb ==
    /\ ppc = "candidates"
    /\ dbi < Len(dblist)
    /\ LET db == dblist[dbi + 1] IN
         /\ connects' = Append(connects, db)
         /\ \/ \* lines 230-232: skipping database
               /\ faults < MaxFaults
               /\ faults' = faults + 1
               /\ skipped' = skipped \cup {db}
               /\ UNCHANGED database_table_vacuummap
            \/ /\ UNCHANGED <<faults, skipped>>
               /\ LET tables == TableQuery(db) IN
                    database_table_vacuummap' =
                       IF tables # << >>
                       THEN (db :> tables) @@ database_table_vacuummap
                       ELSE database_table_vacuummap
    /\ dbi' = dbi + 1
    /\ ppc' = IF dbi + 1 = Len(dblist) THEN "partition" ELSE "candidates"
    /\ UNCHANGED <<lockVars, envVars, interrupted, clockVars, exitcode, pexc, conn,
                   database_table_excludemap, dblist, lists_of_pairs, started,
                   joined, workerVars>>

(* ------------------------- partitioning: 319-369 ---------------------- *)

\* lines 330-331: the [db, table] pairs of one database
PairsOf(db, tables) == [k \in 1..Len(tables) |-> <<db, tables[k]>>]

\* lines 328-333: "for db in db_table_map" visits the keys in the dict's
\* iteration order, here the keys in the order given
RECURSIVE FlattenIn(_, _)
FlattenIn(order, db_table_map) ==
    IF order = << >> THEN << >>
    ELSE (IF Head(order) \in DOMAIN db_table_map
          THEN PairsOf(Head(order), db_table_map[Head(order)])
          ELSE << >>) \o FlattenIn(Tail(order), db_table_map)

flatten(db_table_map) == FlattenIn(dictOrder, db_table_map)

\* line 344-345
EmptyLists(n) == [k \in 1..n |-> << >>]

\* a wrap-around that comes one list too early
WrapIndexEarly(i, n) == IF i = n - 1 THEN 0 ELSE i

\* lines 355-356: wrap around at the end of the list of lists
WrapIndex(i, n) == IF i = n THEN 0 ELSE i

\* lines 351-364: the filling loop; i is the code's 0-based index.  err is
\* TRUE when lists[i] raised IndexError
RECURSIVE FillLists(_, _, _, _)
FillLists(items, n, lists, i) ==
    LET j == WrapIndex(i, n) IN
    IF items = << >> THEN [err |-> FALSE, lists |-> lists]
    ELSE IF j >= Len(lists) THEN [err |-> TRUE, lists |-> lists]
    ELSE FillLists(Tail(items), n,
                   [lists EXCEPT ![j + 1] = Append(@, Head(items))], j + 1)

\* lines 335-369
split_into_lists(items, n) == FillLists(items, n, EmptyLists(n), 0)

(* ------------------------------ main: 438-455 ------------------------- *)

\* lines 442-447: flatten, split_into_lists, create_and_start_processes
Partition ==
    /\ ppc = "partition"
    /\ LET database_table_pairs == flatten(database_table_vacuummap)
           r == split_into_lists(database_table_pairs, args.jobs)
       IN  IF r.err
           THEN /\ pexc' = "IndexError"
                /\ ParentExit(1)
                /\ UNCHANGED lists_of_pairs
           ELSE /\ lists_of_pairs' = r.lists
                /\ ppc' = IF r.lists = << >> THEN "join" ELSE "start"
                /\ UNCHANGED <<pexc, exitcode>>
    /\ UNCHANGED <<lockVars, envVars, interrupted, clockVars, faults, connects, conn,
                   database_table_excludemap, dblist, dbi, skipped,
                   database_table_vacuummap, started, joined, workerVars>>

NProcesses == Len(lists_of_pairs)

\* lines 449-450: process.start() of the next process
StartProcess ==
    /\ ppc = "start"
    /\ started < NProcesses
    /\ started' = started + 1
    /\ wpc' = [wpc EXCEPT ![started + 1] = "begin"]
    /\ ppc' = IF started + 1 = NProcesses THEN "join" ELSE "start"
    /\ UNCHANGED <<lockVars, envVars, interrupted, clockVars, faults, exitcode, pexc, connects, conn,
                   database_table_excludemap, dblist, dbi, skipped,
                   database_table_vacuummap, lists_of_pairs, joined,
                   idx, halt_time, checkedAt, timeout_secs, tables_processed,
                   attempted, failed, wake, wexc, connVars>>

Terminated(w) == wpc[w] \in {"done", "crashed", "exited"}

\* a join that does not wait for the process to end
JoinProcessNoWait ==
    /\ ppc = "join"
    /\ joined < NProcesses
    /\ joined' = joined + 1
    /\ UNCHANGED <<lockVars, envVars, interrupted, clockVars, faults, ppc, exitcode, pexc,
                   connects, conn, database_table_excludemap, dblist, dbi, skipped,
                   database_table_vacuummap, lists_of_pairs, started,
                   workerVars>>

\* lines 452-453: process.join() returns once the process has ended
JoinProcess ==
    /\ ppc = "join"
    /\ joined < NProcesses
    /\ Terminated(joined + 1)
    /\ joined' = joined + 1
    /\ UNCHANGED <<lockVars, envVars, interrupted, clockVars, faults, ppc, exitcode, pexc, connects,
                   conn, database_table_excludemap, dblist, dbi, skipped,
                   database_table_vacuummap, lists_of_pairs, started,
                   workerVars>>

\* line 455: sys.exit(0)
ExitMain ==
    /\ ppc = "join"
    /\ joined = NProcesses
    /\ ParentExit(0)
    /\ UNCHANGED <<lockVars, envVars, interrupted, clockVars, faults, pexc, connects, conn,
                   database_table_excludemap, dblist, dbi, skipped,
                   database_table_vacuummap, lists_of_pairs, started, joined,
                   workerVars>>

\* the interpreter's exit: multiprocessing's exit handler joins the child
\* processes that are still active before the process ends
ProcessExit ==
    /\ ppc = "exiting"
    /\ \A w \in Workers : wpc[w] \in {"unborn", "done", "crashed", "exited"}
    /\ ppc' = "exited"
    /\ UNCHANGED <<lockVars, envVars, interrupted, clockVars, faults, exitcode, pexc, connects,
                   conn, database_table_excludemap, dblist, dbi, skipped,
                   database_table_vacuummap, lists_of_pairs, started, joined,
                   workerVars>>

(* ----------------------------- worker: 372-421 ------------------------ *)

\* every process handed the first list
QueueOfFirst(w) == lists_of_pairs[1]

\* db_table_pairs of worker w
Queue(w) == lists_of_pairs[w]

Alive(w) == wpc[w] \notin {"unborn", "done", "crashed", "exited"}

\* line 374
HaltTime(t) == t + (args.run_min * SecondsPerMinute)

\* lines 373-376: the process starts running worker()
Begin(w) ==
    /\ wpc[w] = "begin"
    /\ halt_time' = [halt_time EXCEPT ![w] = HaltTime(now)]
    /\ wpc' = [wpc EXCEPT ![w] = IF Queue(w) = << >> THEN "report" ELSE "connect"]
    /\ UNCHANGED <<lockVars, envVars, interrupted, clockVars, faults, parentVars, idx, checkedAt,
                   timeout_secs, tables_processed, attempted, failed, wake, wexc,
                   connVars>>

\* the process ends: the operating system closes what it held open
ClosedAtExit(w) == [wopen EXCEPT ![w] = 0]

\* line 382: the outcome of the dbconnect call for the pair at idx
Dialled(w, outcome) == [wconnects EXCEPT ![w] = Append(@, <<idx[w], outcome>>)]

\* line 387-388: the SET statements on the new connection raise, and
\* nothing catches it
SetFails(w) ==
    /\ faults < MaxFaults
    /\ faults' = faults + 1
    /\ wpc' = [wpc EXCEPT ![w] = "crashed"]
    /\ wexc' = [wexc EXCEPT ![w] = "psycopg2.Error"]
    /\ wconnects' = Dialled(w, "ok")
    /\ wopen' = ClosedAtExit(w)

\* a worker that calls dbconnect again after a failure
ConnectRetries(w) ==
    /\ wpc[w] = "connect"
    /\ \/ /\ faults < MaxFaults
          /\ faults' = faults + 1
          /\ wconnects' = Dialled(w, "refused")
          /\ UNCHANGED <<wpc, wexc, wopen, stmt_timeout>>
       \/ /\ UNCHANGED <<faults, wexc>>
          /\ wpc' = [wpc EXCEPT ![w] = "check"]
          /\ wconnects' = Dialled(w, "ok")
          /\ wopen' = [wopen EXCEPT ![w] = @ + 1]
          /\ stmt_timeout' = [stmt_timeout EXCEPT ![w] = 0]
    /\ UNCHANGED <<lockVars, envVars, interrupted, clockVars, parentVars, idx, halt_time,
                   checkedAt, timeout_secs, tables_processed, attempted, failed,
                   wake, vac_start>>

\* lines 380-388: dbconnect for the pair at idx; a failure leaves the loop.
\* Nothing closes the connection of the pair before: the names cur and
\* excur still refer to its cursors, so it stays open beside the new one
Connect(w) ==
    /\ wpc[w] = "connect"
    /\ \/ /\ faults < MaxFaults
          /\ faults' = faults + 1
          /\ wpc' = [wpc EXCEPT ![w] = "report"]
          /\ wconnects' = Dialled(w, "refused")
          /\ UNCHANGED <<wexc, wopen, stmt_timeout>>
       \/ /\ UNCHANGED <<faults, wexc>>
          /\ wpc' = [wpc EXCEPT ![w] = "check"]
          /\ wconnects' = Dialled(w, "ok")
          /\ wopen' = [wopen EXCEPT ![w] = @ + 1]
          /\ stmt_timeout' = [stmt_timeout EXCEPT ![w] = 0]
    /\ UNCHANGED <<lockVars, envVars, interrupted, clockVars, parentVars, idx, halt_time,
                   checkedAt, timeout_secs, tables_processed, attempted, failed,
                   wake, vac_start>>

\* lines 386-388 raising instead
ConnectSetFails(w) ==
    /\ wpc[w] = "connect"
    /\ SetFails(w)
    /\ UNCHANGED <<lockVars, envVars, interrupted, clockVars, parentVars, idx, halt_time,
                   checkedAt, timeout_secs, tables_processed, attempted, failed,
                   wake, stmt_timeout, vac_start>>

\* a deadline check that lets the deadline instant itself pass
DeadlineReachedLate(t, halt) == t > halt

\* line 390
DeadlineReached(t, halt) == t >= halt

\* lines 390-393: the deadline check; line 391 calls _verbose_print, a name
\* the module never defines, so the branch raises NameError
Check(w) ==
    /\ wpc[w] = "check"
    /\ checkedAt' = [checkedAt EXCEPT ![w] = now]
    /\ IF DeadlineReached(now, halt_time[w])
       THEN /\ wpc' = [wpc EXCEPT ![w] = "crashed"]
            /\ wexc' = [wexc EXCEPT ![w] = "NameError: _verbose_print"]
            /\ wopen' = ClosedAtExit(w)
       ELSE /\ wpc' = [wpc EXCEPT ![w] = IF args.enforcetime THEN "timeout" ELSE "exec"]
            /\ UNCHANGED <<wexc, wopen>>
    /\ UNCHANGED <<lockVars, envVars, interrupted, clockVars, faults, parentVars, idx, halt_time,
                   timeout_secs, tables_processed, attempted, failed, wake,
                   wconnects, stmt_timeout, vac_start>>

\* lines 395-397: int(halt_time - time.time()) + 30
Timeout(w) ==
    /\ wpc[w] = "timeout"
    /\ timeout_secs' = [timeout_secs EXCEPT ![w] = (halt_time[w] - now) + TimeoutSlack]
    /\ wpc' = [wpc EXCEPT ![w] = "exec"]
    /\ UNCHANGED <<lockVars, envVars, interrupted, clockVars, faults, parentVars, idx, halt_time, checkedAt,
                   tables_processed, attempted, failed, wake, wexc, connVars>>

\* lines 418-419: the pair is appended and the worker sleeps; no statement
\* is in flight any more, and no later one runs on this connection
Processed(w) ==
    /\ tables_processed' = [tables_processed EXCEPT ![w] = Append(@, Queue(w)[idx[w]])]
    /\ wake' = [wake EXCEPT ![w] = now + args.pause_time]
    /\ wpc' = [wpc EXCEPT ![w] = "sleep"]
    /\ vac_start' = [vac_start EXCEPT ![w] = 0]
    /\ stmt_timeout' = [stmt_timeout EXCEPT ![w] = 0]

\* line 410: a negative statement_timeout is rejected by the server
TimeoutRejected(w) == args.enforcetime /\ timeout_secs[w] < 0

\* a worker that sends its statements in a dry run too
IssueIgnoresDryRun(w) ==
    /\ wpc[w] = "exec"
    /\ wopen' = [wopen EXCEPT ![w] = 1]
    /\ stmt_timeout' = [stmt_timeout EXCEPT ![w] =
                           IF args.enforcetime THEN timeout_secs[w] ELSE @]
    /\ attempted' = [attempted EXCEPT ![w] = Append(@, idx[w])]
    /\ vac_start' = [vac_start EXCEPT ![w] = now]
    /\ wpc' = [wpc EXCEPT ![w] = "vacuum"]
    /\ UNCHANGED <<lockVars, envVars, interrupted, clockVars, faults, parentVars, idx, halt_time, checkedAt,
                   timeout_secs, wexc, wconnects, tables_processed, wake, failed>>

\* lines 400-412: excur takes a cursor of the new connection, which drops
\* the last reference to the connection before.  In a dry run nothing is
\* executed; otherwise the statements are sent: the statement_timeout
\* under --enforce-time, then the VACUUM
Issue(w) ==
    /\ wpc[w] = "exec"
    /\ wopen' = [wopen EXCEPT ![w] = 1]
    /\ IF args.dry_run
       THEN /\ Processed(w)
            /\ UNCHANGED <<attempted, failed>>
       ELSE IF TimeoutRejected(w)
       THEN /\ failed' = [failed EXCEPT ![w] = @ \cup {idx[w]}]
            /\ Processed(w)
            /\ UNCHANGED attempted
       ELSE /\ stmt_timeout' = [stmt_timeout EXCEPT ![w] =
                                   IF args.enforcetime THEN timeout_secs[w] ELSE @]
            /\ attempted' = [attempted EXCEPT ![w] = Append(@, idx[w])]
            /\ vac_start' = [vac_start EXCEPT ![w] = now]
            /\ wpc' = [wpc EXCEPT ![w] = "vacuum"]
            /\ UNCHANGED <<tables_processed, wake, failed>>
    /\ UNCHANGED <<lockVars, envVars, interrupted, clockVars, faults, parentVars, idx, halt_time, checkedAt,
                   timeout_secs, wexc, wconnects>>

\* a worker that leaves its loop when a VACUUM raises
FinishAborts(w) ==
    /\ wpc[w] = "vacuum"
    /\ \/ /\ faults < MaxFaults
          /\ faults' = faults + 1
          /\ failed' = [failed EXCEPT ![w] = @ \cup {idx[w]}]
          /\ tables_processed' = [tables_processed EXCEPT ![w] = Append(@, Queue(w)[idx[w]])]
          /\ wpc' = [wpc EXCEPT ![w] = "report"]
          /\ UNCHANGED <<wake, vac_start, stmt_timeout>>
       \/ /\ UNCHANGED <<faults, failed>>
          /\ Processed(w)
    /\ UNCHANGED <<lockVars, envVars, interrupted, clockVars, parentVars, idx, halt_time,
                   checkedAt, timeout_secs, attempted, wexc, wconnects, wopen>>

\* lines 412-419: the statements return or raise; either way the loop goes on
Finish(w) ==
    /\ wpc[w] = "vacuum"
    /\ \/ /\ faults < MaxFaults
          /\ faults' = faults + 1
          /\ failed' = [failed EXCEPT ![w] = @ \cup {idx[w]}]
       \/ UNCHANGED <<faults, failed>>
    /\ Processed(w)
    /\ UNCHANGED <<lockVars, envVars, interrupted, clockVars, parentVars, idx, halt_time, checkedAt,
                   timeout_secs, attempted, wexc, wconnects, wopen>>

\* line 419 and 376: time.sleep returns and the loop takes the next pair;
\* what the iteration read from the clock is not used again
Sleep(w) ==
    /\ wpc[w] = "sleep"
    /\ now >= wake[w]
    /\ idx' = [idx EXCEPT ![w] = @ + 1]
    /\ wpc' = [wpc EXCEPT ![w] = IF idx[w] = Len(Queue(w)) THEN "report" ELSE "connect"]
    /\ wake' = [wake EXCEPT ![w] = 0]
    /\ checkedAt' = [checkedAt EXCEPT ![w] = 0]
    /\ timeout_secs' = [timeout_secs EXCEPT ![w] = 0]
    /\ UNCHANGED <<lockVars, envVars, interrupted, clockVars, faults, parentVars, halt_time,
                   tables_processed, attempted, failed, wexc, connVars>>

\* line 421: the final report; worker() returns
Report(w) ==
    /\ wpc[w] = "report"
    /\ wpc' = [wpc EXCEPT ![w] = "done"]
    /\ wopen' = ClosedAtExit(w)
    /\ UNCHANGED <<lockVars, envVars, interrupted, clockVars, faults, parentVars, idx, halt_time, checkedAt,
                   timeout_secs, tables_processed, attempted, failed,
                   wake, wexc, wconnects, stmt_timeout, vac_start>>

(* ------------------------------ the clock ----------------------------- *)

\* nothing reads the clock before the first process is started
Running == ppc = "start" \/ \E w \in Workers : Alive(w)

\* a statement under a statement_timeout is ended by the server when the
\* timeout has run out: the clock does not pass that instant with the
\* statement in flight
InFlightUntil(w) == vac_start[w] + stmt_timeout[w]

Tick ==
    /\ Running
    /\ ticks < MaxTicks
    /\ \A w \in Workers :
          (wpc[w] = "vacuum" /\ stmt_timeout[w] > 0) =>
              now + TickSeconds <= InFlightUntil(w)
    /\ ticks' = ticks + 1
    /\ now' = now + TickSeconds
    /\ UNCHANGED <<lockVars, envVars, interrupted, faults, parentVars, workerVars>>

(* ------------------------ SIGINT: lines 135-143 ----------------------- *)

\* signal_handler run by the coordinator: line 137 reads the module-level
\* name conn, which is bound only when the databases were discovered
\* (lines 195-198)
SigIntParent ==
    /\ HandlerInstalled
    /\ ppc \notin {"exiting", "exited"}
    /\ 0 \notin interrupted
    /\ interrupted' = interrupted \cup {0}
    /\ IF conn = "undefined"
       THEN /\ pexc' = "NameError: conn"
            /\ ParentExit(1)
            /\ UNCHANGED conn
       ELSE /\ conn' = IF conn = None THEN None ELSE "closed"
            /\ ParentExit(0)
            /\ UNCHANGED pexc
    /\ UNCHANGED <<lockVars, envVars, clockVars, faults, connects,
                   database_table_excludemap, dblist, dbi, skipped,
                   database_table_vacuummap, lists_of_pairs, started, joined,
                   workerVars>>

\* signal_handler run by a worker, which inherited the handler and the
\* module-level names when it was forked.  A NameError raised while the
\* worker is inside the try of lines 408-413 is caught there as a failed
\* VACUUM; anywhere else it ends the worker.  SystemExit is not caught.
SigIntWorker(w) ==
    /\ Alive(w)
    /\ w \notin interrupted
    /\ interrupted' = interrupted \cup {w}
    /\ IF conn = "undefined"
       THEN IF wpc[w] = "vacuum"
            THEN /\ failed' = [failed EXCEPT ![w] = @ \cup {idx[w]}]
                 /\ Processed(w)
                 /\ UNCHANGED <<wexc, wopen>>
            ELSE /\ wpc' = [wpc EXCEPT ![w] = "crashed"]
                 /\ wexc' = [wexc EXCEPT ![w] = "NameError: conn"]
                 /\ wopen' = ClosedAtExit(w)
                 /\ UNCHANGED <<failed, tables_processed, wake, vac_start,
                                stmt_timeout>>
       ELSE /\ wpc' = [wpc EXCEPT ![w] = "exited"]
            /\ wopen' = ClosedAtExit(w)
            /\ UNCHANGED <<wexc, failed, tables_processed, wake, vac_start,
                           stmt_timeout>>
    /\ UNCHANGED <<lockVars, envVars, clockVars, faults, parentVars, idx, halt_time,
                   checkedAt, timeout_secs, attempted, wconnects>>

(* --------------------------- specifications --------------------------- *)

Next ==
    \/ ParseExcludes
    \/ InstallHandler
    \/ ListDatabases
    \/ SelectDb
    \/ Partition
    \/ StartProcess
    \/ JoinProcess
    \/ ExitMain
    \/ ProcessExit
    \/ \E w \in Workers : Begin(w)
    \/ \E w \in Workers : Connect(w)
    \/ \E w \in Workers : ConnectSetFails(w)
    \/ \E w \in Workers : Check(w)
    \/ \E w \in Workers : Timeout(w)
    \/ \E w \in Workers : Issue(w)
    \/ \E w \in Workers : Finish(w)
    \/ \E w \in Workers : Sleep(w)
    \/ \E w \in Workers : Report(w)
    \/ Tick

Spec == Init /\ [][Next]_vars

\* runs in which SIGINT may be delivered, once to each process
NextInt ==
    \/ Next
    \/ SigIntParent
    \/ \E w \in Workers : SigIntWorker(w)

SpecInt == Init /\ [][NextInt]_vars

(* --------------------- partitioning taken alone ----------------------- *)

\* a candidate list of k tables, in rank order
Ranked(k) == [i \in 1..k |-> "t" \o ToString(i)]

\* the maps get_candidates can return: a database is a key only with a
\* non-empty list (line 312)
CandidateMaps ==
    { [db \in keys |-> Ranked(len[db])] :
        keys \in SUBSET DBNames, len \in [DBNames -> 1..MaxRank] }

\* the coordinator about to partition: both databases were visited and
\* answered with the lists of the map (an absent database with none)
InitPartition ==
    /\ \E m \in CandidateMaps, n \in 1..MaxSplitJobs :
          /\ args = ArgsOf(n, 1, 0, TRUE, FALSE, FALSE, <<"A", "B">>, << >>, << >>)
          /\ database_table_vacuummap = m
          /\ catalog = [db \in DBNames |->
                          [freeze |-> IF db \in DOMAIN m THEN m[db] ELSE << >>,
                           decay |-> << >>]]
    /\ datnames = <<"A", "B">>
    /\ dictOrder \in Orders
    /\ now = 0
    /\ ticks = 0
    /\ faults = 0
    /\ interrupted = {}
    /\ ppc = "partition"
    /\ exitcode = 0
    /\ pexc = None
    /\ connects = <<"A", "B">>
    /\ conn = "undefined"
    /\ database_table_excludemap = << >>
    /\ dblist = <<"A", "B">>
    /\ dbi = 2
    /\ lists_of_pairs = << >>
    /\ started = 0
    /\ joined = 0
    /\ wpc = [w \in Workers |-> "unborn"]
    /\ idx = [w \in Workers |-> 1]
    /\ halt_time = [w \in Workers |-> 0]
    /\ checkedAt = [w \in Workers |-> 0]
    /\ timeout_secs = [w \in Workers |-> 0]
    /\ tables_processed = [w \in Workers |-> << >>]
    /\ attempted = [w \in Workers |-> << >>]
    /\ failed = [w \in Workers |-> {}]
    /\ wake = [w \in Workers |-> 0]
    /\ wexc = [w \in Workers |-> None]
    /\ skipped = {}
    /\ wconnects = [w \in Workers |-> << >>]
    /\ wopen = [w \in Workers |-> 0]
    /\ stmt_timeout = [w \in Workers |-> 0]
    /\ vac_start = [w \in Workers |-> 0]
    /\ output_lock = {}
    /\ opc = [p \in Procs |-> "idle"]

SpecPartition == InitPartition /\ [][Partition]_vars

(* ------------------ the printing functions: lines 78-107 -------------- *)

\* debug_print, verbose_print and _print all take output_lock, write their
\* line and release the lock; output_lock is a multiprocessing.Lock, which
\* is not reentrant and which the workers share with the coordinator.

otherVars == <<envVars, clockVars, faults, parentVars, workerVars>>

\* lines 81, 89, 98: a process calls one of the printing functions
CallPrint(p) ==
    /\ opc[p] = "idle"
    /\ opc' = [opc EXCEPT ![p] = "acquire"]
    /\ UNCHANGED <<output_lock, interrupted, otherVars>>

\* output_lock.acquire() returns once nobody holds the lock
AcquireLock(p) ==
    /\ opc[p] = "acquire"
    /\ output_lock = {}
    /\ output_lock' = {p}
    /\ opc' = [opc EXCEPT ![p] = "emit"]
    /\ UNCHANGED <<interrupted, otherVars>>

\* lines 84-86, 92-94, 101-107: the line is written, output_lock.release()
ReleaseLock(p) ==
    /\ opc[p] = "emit"
    /\ output_lock' = output_lock \ {p}
    /\ opc' = [opc EXCEPT ![p] = "idle"]
    /\ UNCHANGED <<interrupted, otherVars>>

\* lines 135-136: SIGINT arrives and the handler, run by the interrupted
\* process between two of its instructions, calls _print
SigIntPrinting(p) ==
    /\ opc[p] \in {"idle", "acquire", "emit"}
    /\ p \notin interrupted
    /\ interrupted' = interrupted \cup {p}
    /\ opc' = [opc EXCEPT ![p] = "h_acquire"]
    /\ UNCHANGED <<output_lock, otherVars>>

\* line 98 in the handler's _print: the lock is taken only when nobody
\* holds it, the interrupted process itself included
HandlerAcquire(p) ==
    /\ opc[p] = "h_acquire"
    /\ output_lock = {}
    /\ output_lock' = {p}
    /\ opc' = [opc EXCEPT ![p] = "h_emit"]
    /\ UNCHANGED <<interrupted, otherVars>>

\* lines 100-107 and 137-143: the handler's line is written, the lock
\* released, and the handler ends the process
HandlerRelease(p) ==
    /\ opc[p] = "h_emit"
    /\ output_lock' = output_lock \ {p}
    /\ opc' = [opc EXCEPT ![p] = "exited"]
    /\ UNCHANGED <<interrupted, otherVars>>

NextOutput ==
    \/ \E p \in Procs : CallPrint(p)
    \/ \E p \in Procs : AcquireLock(p)
    \/ \E p \in Procs : ReleaseLock(p)
    \/ \E p \in Procs : SigIntPrinting(p)
    \/ \E p \in Procs : HandlerAcquire(p)
    \/ \E p \in Procs : HandlerRelease(p)

\* the run at the moment every process has been started: the coordinator
\* is about to join, the workers are about to run worker()
InitOutput ==
    /\ args = ArgsOf(MaxJobs, 1, 0, FALSE, FALSE, FALSE, <<"A", "B">>, << >>, << >>)
    /\ catalog = CatalogSmall
    /\ datnames = <<"A", "B">>
    /\ dictOrder = <<"A", "B">>
    /\ now = 0
    /\ ticks = 0
    /\ faults = 0
    /\ interrupted = {}
    /\ ppc = "join"
    /\ exitcode = 0
    /\ pexc = None
    /\ connects = <<"A", "B">>
    /\ conn = "undefined"
    /\ database_table_excludemap = << >>
    /\ dblist = <<"A", "B">>
    /\ dbi = 2
    /\ skipped = {}
    /\ database_table_vacuummap = [db \in DBNames |-> CatalogSmall[db].freeze]
    /\ lists_of_pairs =
          split_into_lists(FlattenIn(<<"A", "B">>,
                                     [db \in DBNames |-> CatalogSmall[db].freeze]),
                           MaxJobs).lists
    /\ started = MaxJobs
    /\ joined = 0
    /\ wpc = [w \in Workers |-> "begin"]
    /\ idx = [w \in Workers |-> 1]
    /\ halt_time = [w \in Workers |-> 0]
    /\ checkedAt = [w \in Workers |-> 0]
    /\ timeout_secs = [w \in Workers |-> 0]
    /\ tables_processed = [w \in Workers |-> << >>]
    /\ attempted = [w \in Workers |-> << >>]
    /\ failed = [w \in Workers |-> {}]
    /\ wake = [w \in Workers |-> 0]
    /\ wexc = [w \in Workers |-> None]
    /\ wconnects = [w \in Workers |-> << >>]
    /\ wopen = [w \in Workers |-> 0]
    /\ stmt_timeout = [w \in Workers |-> 0]
    /\ vac_start = [w \in Workers |-> 0]
    /\ output_lock = {}
    /\ opc = [p \in Procs |-> "idle"]

\* a process that can take or release the lock does so in the end
SpecOutput ==
    /\ InitOutput
    /\ [][NextOutput]_vars
    /\ \A p \in Procs :
          /\ WF_vars(AcquireLock(p))
          /\ WF_vars(ReleaseLock(p))
          /\ WF_vars(HandlerAcquire(p))
          /\ WF_vars(HandlerRelease(p))

(* ------------------------------- claims ------------------------------- *)

\* what main hands to split_into_lists
PartitionInput == flatten(database_table_vacuummap)

\* split_into_lists has run
Partitioned == ppc \in {"start", "join"} \/ started > 0 \/ pexc = "IndexError"

\* C1: for n >= 1 split_into_lists returns exactly n lists, the item at
\* 0-based position i of the input sits in list (i mod n) at position
\* (i div n), the lists hold nothing else (so every item is in exactly one
\* list and the round-robin reading gives back the input), and any two
\* lists differ in length by at most 1.
C1_RoundRobin ==
    (Partitioned /\ args.jobs >= 1) =>
        LET items == PartitionInput
            n == args.jobs
            m == Len(items)
        IN  /\ pexc = None
            /\ Len(lists_of_pairs) = n
            /\ \A k \in 1..n :
                  Len(lists_of_pairs[k]) = Cardinality({i \in 0..(m - 1) : i % n = k - 1})
            /\ \A i \in 0..(m - 1) :
                  lists_of_pairs[(i % n) + 1][(i \div n) + 1] = items[i + 1]
            /\ \A a, b \in 1..n :
                  Len(lists_of_pairs[a]) - Len(lists_of_pairs[b]) \in {0 - 1, 0, 1}

\* five items were dealt to three lists: sizes 2, 2, 1
C1_Witness ==
    /\ Partitioned
    /\ args.jobs = 3
    /\ Len(PartitionInput) = 5
    /\ Len(lists_of_pairs) = 3
    /\ Len(lists_of_pairs[3]) = 1

Born(w) == wpc[w] # "unborn"

\* worker() is past line 374
Begun(w) == wpc[w] \notin {"unborn", "begin"}

\* the worker ended in the branch of lines 390-392
HaltedAtDeadline(w) == wpc[w] = "crashed" /\ wexc[w] = "NameError: _verbose_print"

\* the worker left its loop at line 385 with pairs remaining
BrokeOnConnect(w) == wpc[w] \in {"report", "done"} /\ idx[w] <= Len(Queue(w))

\* the SET statements of lines 387-388 raised
BrokeOnSet(w) == wpc[w] = "crashed" /\ wexc[w] = "psycopg2.Error"

C3_NextAttemptedUnlessDeadline ==
    \A w \in Workers : Born(w) =>
        \A k \in failed[w] :
            (k < Len(Queue(w)) /\ Terminated(w)) =>
                \/ (k + 1) \in Range(attempted[w])
                \/ idx[w] = k + 1 /\ HaltedAtDeadline(w)

\* C3 amended: a failed VACUUM of pair k does not end the worker: it goes
\* on to sleep and to pair k+1, whose VACUUM is issued unless the deadline
\* check for k+1 found the deadline reached, the connection for k+1
\* could not be opened or set up, or the statement_timeout sent ahead of
\* the VACUUM of k+1 was rejected.
C3_FailureIsolation ==
    \A w \in Workers : Born(w) =>
        \A k \in failed[w] :
            /\ idx[w] = k => wpc[w] = "sleep"
            /\ (k < Len(Queue(w)) /\ Terminated(w)) =>
                  \/ (k + 1) \in Range(attempted[w])
                  \/ (k + 1) \in failed[w]
                  \/ /\ idx[w] = k + 1
                     /\ HaltedAtDeadline(w) \/ BrokeOnConnect(w) \/ BrokeOnSet(w)

\* the VACUUM of pair 1 failed and the VACUUM of pair 2 was issued
C3_Witness ==
    \E w \in Workers : 1 \in failed[w] /\ 2 \in Range(attempted[w])

\* the characters of a string argument, joined
RECURSIVE Concat(_)
Concat(chars) == IF chars = << >> THEN "" ELSE Head(chars) \o Concat(Tail(chars))

\* -T names t
GloballyExcluded(t) == t \in Range(args.tables_to_exclude)

\* some --exclude-table-in-database argument reads db.t
ResourceExcluded(db, t) ==
    \E k \in 1..Len(args.exclude_table_in_database) :
        Concat(args.exclude_table_in_database[k]) = db \o "." \o t

IsExcluded(pair) == GloballyExcluded(pair[2]) \/ ResourceExcluded(pair[1], pair[2])

\* C4: under both policies a table named by -T, or by an
\* --exclude-table-in-database argument for its database, is in no
\* candidate list, in no worker's queue, and is neither vacuumed nor
\* recorded as processed by any worker.
C4_Exclusion ==
    /\ \A db \in DOMAIN database_table_vacuummap :
          \A t \in Range(database_table_vacuummap[db]) : ~IsExcluded(<<db, t>>)
    /\ \A w \in 1..NProcesses :
          /\ \A pair \in Range(Queue(w)) : ~IsExcluded(pair)
          /\ \A pair \in Range(tables_processed[w]) : ~IsExcluded(pair)
          /\ \A k \in Range(attempted[w]) : ~IsExcluded(Queue(w)[k])

\* t1 is excluded in database A only: A's list lacks it, and a worker has
\* processed B's t1 and A's t2
C4_Witness ==
    /\ ResourceExcluded("A", "t1")
    /\ ~GloballyExcluded("t1")
    /\ "A" \in DOMAIN database_table_vacuummap
    /\ "t1" \notin Range(database_table_vacuummap["A"])
    /\ \E w \in 1..NProcesses :
          {<<"B", "t1">>, <<"A", "t2">>} \subseteq Range(tables_processed[w])

\* C5 as stated: any two workers of a run compare the clock against the
\* same deadline.
C5_SameDeadline ==
    \A v, w \in Workers : (Begun(v) /\ Begun(w)) => halt_time[v] = halt_time[w]

\* C6 as stated, for runs in which no connection and no statement fails:
\* a worker that has ended has ended by making its final report, whether
\* it exhausted its queue or found the deadline reached.
C6_EndsWithReport ==
    \A w \in Workers : (faults = 0 /\ Terminated(w)) => wpc[w] = "done"

\* C7: only processes of work queues exist, one per queue; main reaches
\* its sys.exit(0) only with every process started, joined and ended; and
\* a worker that ended did so on its own account: queue exhausted,
\* deadline found reached, or its own connection failing.
C7_JoinAll ==
    /\ started <= NProcesses
    /\ \A w \in Workers : Born(w) => w <= started
    /\ (ppc \in {"exiting", "exited"} /\ exitcode = 0) =>
          /\ started = NProcesses
          /\ joined = NProcesses
          /\ \A w \in 1..NProcesses : Terminated(w)
    /\ \A w \in Workers : (Born(w) /\ Terminated(w)) =>
          \/ idx[w] > Len(Queue(w))
          \/ HaltedAtDeadline(w)
          \/ BrokeOnConnect(w)
          \/ BrokeOnSet(w)

\* the coordinator exited with 0 after one worker halted at the deadline
\* and the other worked through its queue
C7_Witness ==
    /\ ppc = "exited"
    /\ exitcode = 0
    /\ NProcesses = 2
    /\ \E v, w \in 1..NProcesses :
          /\ HaltedAtDeadline(v)
          /\ wpc[w] = "done"
          /\ Len(tables_processed[w]) = Len(Queue(w))
          /\ Queue(w) # << >>

\* C8 as stated: a process SIGINT was delivered to has ended with exit
\* status 0, through the handler's sys.exit(0).
C8_InterruptExitsZero ==
    /\ 0 \in interrupted =>
          ppc \in {"exiting", "exited"} /\ exitcode = 0 /\ pexc = None
    /\ \A w \in Workers : w \in interrupted => wpc[w] = "exited"

\* C9 as stated: once the coordinator has handled an interrupt, no worker
\* issues a VACUUM or records a pair any more.
C9_NoWorkAfterInterrupt ==
    [][0 \in interrupted =>
          (attempted' = attempted /\ tables_processed' = tables_processed)]_vars

\* an argument with no dot or with more than one
Malformed(elem) == Cardinality({k \in 1..Len(elem) : elem[k] = "."}) # 1

SomeMalformed ==
    \E k \in 1..Len(args.exclude_table_in_database) :
        Malformed(args.exclude_table_in_database[k])

\* C10: with a malformed --exclude-table-in-database argument the
\* coordinator's first step is exit(2): no connection was attempted, no
\* database visited, nothing partitioned, no process started.  With
\* well-formed arguments the exit status is never 2.
C10_MalformedExits2 ==
    /\ (SomeMalformed /\ ppc # "excludemap") =>
          /\ ppc \in {"exiting", "exited"}
          /\ exitcode = 2
          /\ connects = << >>
          /\ dbi = 0
          /\ database_table_vacuummap = << >>
          /\ lists_of_pairs = << >>
          /\ \A w \in Workers : ~Born(w)
    /\ (~SomeMalformed /\ ppc \in {"exiting", "exited"}) => exitcode # 2

\* exit(2) for the argument A.s.t1, which has two dots
C10_Witness ==
    /\ args.exclude_table_in_database = <<ArgTwoDots>>
    /\ ppc = "exited"
    /\ exitcode = 2

\* every pair handed to split_into_lists sits in some returned list
AllAssigned ==
    \A i \in 1..Len(PartitionInput) :
        \E k \in 1..Len(lists_of_pairs) :
            PartitionInput[i] \in Range(lists_of_pairs[k])

\* C11 as stated: whatever --jobs is (0 and negative values included),
\* split_into_lists returns without error, returns at least one list, and
\* every pair is in one of the lists; with no pairs every list is empty.
C11_ClampedPartition ==
    Partitioned =>
        /\ pexc = None
        /\ Len(lists_of_pairs) >= 1
        /\ AllAssigned
        /\ PartitionInput = << >> =>
              \A k \in 1..Len(lists_of_pairs) : lists_of_pairs[k] = << >>

\* how many pairs worker w has got through: the one at idx counts once it
\* was appended
Passed(w) == IF wpc[w] = "sleep" THEN idx[w] ELSE idx[w] - 1

\* in a dry run: nothing was sent to any database but the connection setup,
\* and every pair the worker got through is recorded, in queue order
DryRunFrame(w) ==
    /\ attempted[w] = << >>
    /\ failed[w] = {}
    /\ stmt_timeout[w] = 0
    /\ wpc[w] # "vacuum"
    /\ Born(w) => tables_processed[w] = SubSeq(Queue(w), 1, Passed(w))

\* the count of a dry run in which nothing is late and nothing fails
DryRunCount(w) == IF args.run_min = 0 THEN 0 ELSE Len(Queue(w))

\* C12 as stated: in a dry run no VACUUM and no statement_timeout is sent,
\* every pair a worker got through is recorded, and the number of pairs a
\* worker has recorded when it ends is the same in every dry run over the
\* same queues in which no connection fails.
C12_DryRunCountsFixed ==
    args.dry_run =>
        \A w \in Workers :
            /\ DryRunFrame(w)
            /\ (faults = 0 /\ Born(w) /\ Terminated(w)) =>
                  Len(tables_processed[w]) = DryRunCount(w)

\* C12 amended: in a dry run no VACUUM and no statement_timeout is sent and
\* every pair a worker got through is recorded; a worker that ends without
\* having found its deadline reached and without a connection failing has
\* recorded its whole queue, so the counts of two such dry runs agree.
C12_DryRun ==
    args.dry_run =>
        \A w \in Workers :
            /\ DryRunFrame(w)
            /\ (wpc[w] = "done" /\ ~BrokeOnConnect(w)) =>
                  tables_processed[w] = Queue(w)

\* a dry run under --enforce-time: a worker computed a statement_timeout
\* for each of its two pairs, sent none, and recorded both
C12_Witness ==
    /\ args.dry_run
    /\ args.enforcetime
    /\ \E w \in Workers :
          /\ wpc[w] = "sleep"
          /\ timeout_secs[w] > 0
          /\ Len(Queue(w)) >= 2
          /\ tables_processed[w] = Queue(w)
          /\ Len(wconnects[w]) = Len(Queue(w))

\* the databases get_candidates has visited so far, in order
Visited == SubSeq(dblist, 1, dbi)

\* the connections the coordinator has asked for so far
ExpectedConnects ==
    (IF args.dblist = NoList /\ ppc \notin {"excludemap", "signal", "dblist"}
     THEN <<"postgres">> ELSE << >>) \o Visited

\* C13: a database whose connection fails during selection gets no entry
\* in the candidate map and selection goes on with the next database of
\* the list: the coordinator connects to the databases in list order, once
\* each, and does not exit on account of a skipped database; every other
\* visited database contributes the answer to its query, and after
\* partitioning each of its pairs is in a worker's queue.  No process is
\* started before every database of the list was visited.
C13_SkipUnreachable ==
    /\ skipped \subseteq Range(Visited)
    /\ \A db \in skipped : db \notin DOMAIN database_table_vacuummap
    /\ ppc # "excludemap" /\ ~SomeMalformed => connects = ExpectedConnects
    /\ (skipped # {} /\ ppc \in {"exiting", "exited"}) =>
          exitcode = 0 \/ pexc = "IndexError"
    /\ \A i \in 1..dbi : dblist[i] \notin skipped =>
          LET db == dblist[i]
              answer == TableQuery(db)
          IN  /\ answer # << >> =>
                    /\ db \in DOMAIN database_table_vacuummap
                    /\ database_table_vacuummap[db] = answer
              /\ (Partitioned /\ pexc = None /\ dbi = Len(dblist)) =>
                    \A j \in 1..Len(answer) :
                        \E k \in 1..Len(lists_of_pairs) :
                            \E l \in 1..Len(lists_of_pairs[k]) :
                                lists_of_pairs[k][l] = <<db, answer[j]>>
    /\ \A w \in Workers : Born(w) => (dblist # NoList /\ dbi = Len(dblist))

\* database A was skipped, B was still selected, and a worker has really
\* vacuumed B's table
C13_Witness ==
    /\ dblist = <<"A", "B">>
    /\ skipped = {"A"}
    /\ DOMAIN database_table_vacuummap = {"B"}
    /\ ~args.dry_run
    /\ \E w \in Workers :
          /\ attempted[w] = <<1>>
          /\ tables_processed[w] = <<<<"B", "t1">>>>
          /\ failed[w] = {}

\* the pairs whose VACUUM worker w has sent
Attempts(w) == { Queue(w)[k] : k \in Range(attempted[w]) }

\* C14: in every reachable state, the VACUUMs a worker has sent are those
\* of the first pairs of the list split_into_lists made for it, sent in the
\* list's order without a gap or a repetition (and the pairs it recorded
\* are a prefix of that list too); no pair's VACUUM was sent by two
\* workers.
C14_OwnQueueInOrder ==
    /\ \A w \in Workers : Born(w) =>
          /\ Len(attempted[w]) <= Len(lists_of_pairs[w])
          /\ \A k \in 1..Len(attempted[w]) :
                /\ attempted[w][k] = k
                /\ Queue(w)[attempted[w][k]] = lists_of_pairs[w][k]
          /\ Len(tables_processed[w]) <= Len(lists_of_pairs[w])
          /\ \A k \in 1..Len(tables_processed[w]) :
                tables_processed[w][k] = lists_of_pairs[w][k]
    /\ \A v, w \in Workers : (v < w /\ Born(w)) =>
          \A i \in 1..Len(attempted[v]), j \in 1..Len(attempted[w]) :
              Queue(v)[attempted[v][i]] # Queue(w)[attempted[w][j]]

\* two workers at work: one has sent the VACUUMs of both its pairs, the
\* other that of its only pair
C14_Witness ==
    /\ NProcesses = 2
    /\ attempted[1] = <<1, 2>>
    /\ attempted[2] = <<1>>
    /\ Attempts(1) = {<<"A", "t1">>, <<"B", "t1">>}
    /\ Attempts(2) = {<<"A", "t2">>}

\* C15 as stated: a pair whose VACUUM raised is not in the worker's
\* tables_processed, and the length of tables_processed is the number of
\* pairs the worker got through without an error.
C15_OnlySuccesses ==
    \A w \in Workers : Born(w) =>
        /\ \A k \in failed[w] : Queue(w)[k] \notin Range(tables_processed[w])
        /\ Len(tables_processed[w]) =
              Cardinality({k \in 1..Passed(w) : k \notin failed[w]})

\* the worker's i-th dbconnect call raised
Refused(w, i) == wconnects[w][i][2] = "refused"

\* C16: a worker calls dbconnect once per pair it comes to, in queue
\* order; when the call for pair k raises, it is the worker's last call:
\* the worker leaves its loop for its final report, the VACUUM of pair k
\* and of every later pair is never sent, and tables_processed keeps the
\* k-1 pairs before.  Another worker ends only on its own account.
C16_AbandonOnConnectFailure ==
    \A w \in Workers : Born(w) =>
        /\ \A i \in 1..Len(wconnects[w]) :
              /\ wconnects[w][i][1] = i
              /\ Refused(w, i) =>
                    /\ i = Len(wconnects[w])
                    /\ wpc[w] \in {"report", "done"}
                    /\ idx[w] = i
                    /\ \A j \in Range(attempted[w]) : j < i
                    /\ tables_processed[w] = SubSeq(Queue(w), 1, i - 1)
                    /\ \A v \in Workers \ {w} : (Born(v) /\ Terminated(v)) =>
                          \/ idx[v] > Len(Queue(v))
                          \/ HaltedAtDeadline(v)
                          \/ BrokeOnConnect(v)
                          \/ BrokeOnSet(v)

\* worker 1 vacuumed its first pair, could not connect for its second and
\* made its final report with one pair of two; worker 2 went through its
\* whole queue
C16_Witness ==
    /\ NProcesses = 2
    /\ ~args.dry_run
    /\ Len(Queue(1)) = 2
    /\ Len(wconnects[1]) = 2
    /\ Refused(1, 2)
    /\ wpc[1] = "done"
    /\ attempted[1] = <<1>>
    /\ Len(tables_processed[1]) = 1
    /\ wpc[2] = "done"
    /\ tables_processed[2] = Queue(2)
    /\ Queue(2) # << >>

\* the deadline of the run: the time budget counted from the start of the
\* run, which is clock value 0
Deadline == HaltTime(0)

\* C17 as stated: under --enforce-time every VACUUM in flight runs under a
\* statement_timeout that ends it no later than 30 seconds after the
\* deadline of the run; without --enforce-time no statement_timeout is set.
C17_HardTimeout ==
    \A w \in Workers : wpc[w] = "vacuum" =>
        IF args.enforcetime
        THEN /\ stmt_timeout[w] > 0
             /\ InFlightUntil(w) <= Deadline + TimeoutSlack
        ELSE stmt_timeout[w] = 0

\* the pairs in the order of the database list: database by database as
\* get_candidates visited them, each database's tables in rank order
InListOrder == FlattenIn(dblist, database_table_vacuummap)

\* C18 as stated: the sequence that is dealt to the workers has the
\* databases in the order of the database list, each database's pairs
\* together and in rank order, so the queues are those of that sequence.
C18_FlattenKeepsListOrder ==
    Partitioned =>
        /\ PartitionInput = InListOrder
        /\ lists_of_pairs = split_into_lists(InListOrder, args.jobs).lists

\* the processes inside the section that writes a line
Emitting == { p \in Procs : opc[p] \in {"emit", "h_emit"} }

\* only the holder of output_lock writes, and one process holds it at most
MutualExclusion == Emitting \subseteq output_lock /\ Cardinality(output_lock) <= 1

\* C19 as stated: at most one process at a time is inside the section
\* that writes a line, and whenever output_lock is held it is released
\* again, so that no process waits for it forever.
C19_OutputLock ==
    /\ []MutualExclusion
    /\ (output_lock # {}) ~> (output_lock = {})

\* C20 as stated: a worker never holds more than one connection open, and
\* none once it has ended.
C20_OneConnection ==
    \A w \in Workers :
        /\ wopen[w] <= 1
        /\ Terminated(w) => wopen[w] = 0

====
